---------------------------- MODULE Spec2Model ----------------------------
(***************************************************************************)
(* A model of the MindFlow API coordination layer (src/api/main.py):       *)
(* credential routing (make_graphiti), the index lifecycle                 *)
(* (ensure_indices, lifespan), the graph materializer                      *)
(* (build_graph_response) and the ingest, get_graph and search handlers.   *)
(* The graph-memory engine and the graph database are external: the model  *)
(* keeps what the handlers pass to them and what the handlers do with the  *)
(* answers, and lets the answers vary.                                     *)
(***************************************************************************)
EXTENDS Integers, Sequences, FiniteSets, Bags, TLC

(***************************************************************************)
(* Bounds of the model.                                                    *)
(***************************************************************************)
\* request slots that may be in flight at once
MaxInFlight == 2
\* requests accepted during one run of the process
MaxRequests == 2
\* longest list the engine's search may hand back
MaxEngineLen == 21
\* longest node list and edge list handed to the materializer on its own
MaxNodes == 2
MaxEdges == 2

(***************************************************************************)
(* Values.                                                                 *)
(***************************************************************************)
\* an Optional[...] value of the Python code
None == [some |-> FALSE, val |-> ""]
Some(x) == [some |-> TRUE, val |-> x]

SessionOrder == <<"A", "B">>
Sessions == { SessionOrder[i] : i \in DOMAIN SessionOrder }

\* "gemini" and "OpenAI" stand for the provider strings the code does not name
Providers == {"openai", "anthropic", "gemini", "OpenAI"}
LlmKeys == {"", "sk-llm"}
EmbedderHints == {"", "sk-hint"}
ServerKeys == {"", "sk-server"}

(***************************************************************************)
(* get_driver: the process-wide store handle, created on first use.        *)
(* ctor_ok says whether FalkorDriver(...) returns or raises.               *)
(***************************************************************************)
get_driver(drv, ctor_ok) ==
    IF drv = "None"
    THEN IF ctor_ok THEN [raised |-> FALSE, driver |-> "FalkorDriver"]
                    ELSE [raised |-> TRUE, driver |-> "None"]
    ELSE [raised |-> FALSE, driver |-> drv]

(***************************************************************************)
(* make_graphiti: credential routing.                                      *)
(***************************************************************************)
MissingKeyDetail == "Embeddings require an OpenAI API key"
NotInstalledDetail == "Anthropic support requires: pip install graphiti-core[anthropic]"

\* as effective_embedder_key, with the caller's hint tried before the provider
effective_embedder_key_hint_first(llm_provider, llm_api_key, embedder_key, server_key) ==
    IF embedder_key # "" THEN embedder_key
    ELSE IF llm_provider = "openai" THEN llm_api_key
    ELSE IF server_key # "" THEN server_key
    ELSE ""

\* lines 47-53: the embedding credential
effective_embedder_key(llm_provider, llm_api_key, embedder_key, server_key) ==
    IF llm_provider = "openai" THEN llm_api_key
    ELSE IF embedder_key # "" THEN embedder_key
    ELSE IF server_key # "" THEN server_key
    ELSE ""

NoClient == [kind |-> "none", api_key |-> ""]

RouteFailure(exc, detail, built, drv) ==
    [outcome |-> exc, detail |-> detail, llm_client |-> NoClient,
     embedder |-> NoClient, cross_encoder |-> NoClient,
     constructed |-> built, driver |-> drv]

\* lines 61-83: the LLM client
llm_client_for(llm_provider, llm_api_key) ==
    IF llm_provider = "anthropic"
    THEN [kind |-> "AnthropicClient", api_key |-> llm_api_key]
    ELSE [kind |-> "OpenAIClient", api_key |-> llm_api_key]

\* as make_graphiti, with the import of line 63 tried before the key check of line 55
make_graphiti_import_first(llm_provider, llm_api_key, embedder_key, env) ==
    LET eff == effective_embedder_key(llm_provider, llm_api_key,
                                      embedder_key, env.EMBEDDER_API_KEY)
        llm == llm_client_for(llm_provider, llm_api_key)
        emb == [kind |-> "OpenAIEmbedder", api_key |-> eff]
        rer == [kind |-> "OpenAIRerankerClient", api_key |-> eff]
        got == get_driver(env.driver, env.ctor_ok)
    IN  IF llm_provider = "anthropic" /\ ~env.anthropic_ok
        THEN RouteFailure("ValueError", NotInstalledDetail, <<>>, env.driver)
        ELSE IF eff = ""
        THEN RouteFailure("ValueError", MissingKeyDetail, <<>>, env.driver)
        ELSE IF got.raised
        THEN RouteFailure("Exception", "FalkorDriver",
                          <<llm.kind, emb.kind, rer.kind>>, env.driver)
        ELSE [outcome |-> "ok", detail |-> "", llm_client |-> llm,
              embedder |-> emb, cross_encoder |-> rer,
              constructed |-> <<llm.kind, emb.kind, rer.kind>>
                              \o (IF env.driver = "None" THEN <<"FalkorDriver">> ELSE <<>>)
                              \o <<"Graphiti">>,
              driver |-> got.driver]

\* the key check of line 55 comes before the import of line 63; env holds
\* what the function reads from the process: EMBEDDER_API_KEY, whether the
\* anthropic client imports, the global driver, whether FalkorDriver(...) returns
make_graphiti(llm_provider, llm_api_key, embedder_key, env) ==
    LET eff == effective_embedder_key(llm_provider, llm_api_key,
                                      embedder_key, env.EMBEDDER_API_KEY)
        llm == llm_client_for(llm_provider, llm_api_key)
        emb == [kind |-> "OpenAIEmbedder", api_key |-> eff]
        rer == [kind |-> "OpenAIRerankerClient", api_key |-> eff]
        got == get_driver(env.driver, env.ctor_ok)
    IN  IF eff = ""
        THEN RouteFailure("ValueError", MissingKeyDetail, <<>>, env.driver)
        ELSE IF llm_provider = "anthropic" /\ ~env.anthropic_ok
        THEN RouteFailure("ValueError", NotInstalledDetail, <<>>, env.driver)
        ELSE IF got.raised
        THEN RouteFailure("Exception", "FalkorDriver",
                          <<llm.kind, emb.kind, rer.kind>>, env.driver)
        ELSE [outcome |-> "ok", detail |-> "", llm_client |-> llm,
              embedder |-> emb, cross_encoder |-> rer,
              constructed |-> <<llm.kind, emb.kind, rer.kind>>
                              \o (IF env.driver = "None" THEN <<"FalkorDriver">> ELSE <<>>)
                              \o <<"Graphiti">>,
              driver |-> got.driver]

(***************************************************************************)
(* build_graph_response: the graph materializer.  A node or an edge is     *)
(* the engine's record as far as the code reads it.  A label is a sequence *)
(* of characters, so that str.lower() is a conversion and not the identity.*)
(***************************************************************************)
NoneTime == [some |-> FALSE, val |-> 0]
NoneLabels == [some |-> FALSE, val |-> <<>>]

LowerChar(c) ==
    CASE c = "E" -> "e" [] c = "N" -> "n" [] c = "O" -> "o"
      [] c = "D" -> "d" [] c = "P" -> "p" [] c = "T" -> "t"
      [] OTHER -> c

\* str.lower()
Lower(label) == [i \in DOMAIN label |-> LowerChar(label[i])]

\* line 257: the labels that only say "this is a node"
GenericLabels ==
    { <<"e","n","t","i","t","y">>, <<"n","o","d","e">>,
      <<"e","n","t","i","t","y","n","o","d","e">> }

TopicType == <<"t","o","p","i","c">>

\* as first_specific_label, with the label compared as it is spelled
RECURSIVE first_specific_label_as_spelled(_)
first_specific_label_as_spelled(labels) ==
    IF labels = <<>> THEN TopicType
    ELSE IF Head(labels) \notin GenericLabels THEN Lower(Head(labels))
    ELSE first_specific_label_as_spelled(Tail(labels))

\* lines 256-259: the first label, in list order, that is not generic
RECURSIVE first_specific_label(_)
first_specific_label(labels) ==
    IF labels = <<>> THEN TopicType
    ELSE IF Lower(Head(labels)) \notin GenericLabels THEN Lower(Head(labels))
    ELSE first_specific_label(Tail(labels))

\* lines 254-259
node_type(node) ==
    IF node.labels.some /\ node.labels.val # <<>>
    THEN first_specific_label(node.labels.val)
    ELSE TopicType

\* datetime.isoformat() of the instants the model uses
isoformat(t) ==
    CASE t = 1 -> "2024-01-01T00:00:00+00:00"
      [] t = 2 -> "2024-06-01T12:00:00+00:00"
      [] OTHER -> "1970-01-01T00:00:00+00:00"

\* dict.get(key, default)
dict_get(d, key, default) == IF key \in DOMAIN d THEN d[key] ELSE default

\* d[key] = d.get(key, 0) + 1
dict_incr(d, key) ==
    [k \in (DOMAIN d) \cup {key} |-> IF k = key THEN dict_get(d, key, 0) + 1 ELSE d[k]]

\* lines 247-250: one pass over the edges, source first, then target
RECURSIVE degree_map(_)
degree_map(edges) ==
    IF edges = <<>> THEN <<>>
    ELSE LET e == edges[Len(edges)]
             before == degree_map(SubSeq(edges, 1, Len(edges) - 1))
         IN  dict_incr(dict_incr(before, e.source_node_uuid), e.target_node_uuid)

\* lines 261-268
GraphEntity(node, degrees) ==
    [id |-> node.uuid,
     name |-> node.name,
     summary |-> IF node.summary.some /\ node.summary.val # "" THEN node.summary.val ELSE "",
     type |-> node_type(node),
     created_at |-> IF node.created_at.some THEN isoformat(node.created_at.val) ELSE "",
     degree |-> dict_get(degrees, node.uuid, 0)]

\* lines 273-283
GraphRelationship(edge) ==
    [id |-> edge.uuid,
     source_id |-> edge.source_node_uuid,
     target_id |-> edge.target_node_uuid,
     fact |-> IF edge.fact.some /\ edge.fact.val # "" THEN edge.fact.val ELSE "",
     type |-> IF edge.name.some /\ edge.name.val # "" THEN edge.name.val ELSE "related_to",
     valid_at |-> IF edge.valid_at.some THEN Some(isoformat(edge.valid_at.val)) ELSE None,
     invalid_at |-> IF edge.invalid_at.some THEN Some(isoformat(edge.invalid_at.val)) ELSE None]

\* lines 228-244: a fetch that raised is replaced by the empty list
fetched_or_empty(fetch) == IF fetch.raised THEN <<>> ELSE fetch.val

\* as build_graph_response, with nothing returned once a fetch has raised
build_graph_response_aborts(nodes_fetch, edges_fetch, session_id) ==
    LET nodes == IF nodes_fetch.raised \/ edges_fetch.raised THEN <<>> ELSE nodes_fetch.val
        edges == IF nodes_fetch.raised \/ edges_fetch.raised THEN <<>> ELSE edges_fetch.val
        degrees == degree_map(edges)
        entities == [i \in DOMAIN nodes |-> GraphEntity(nodes[i], degrees)]
        relationships == [i \in DOMAIN edges |-> GraphRelationship(edges[i])]
    IN  [entities |-> entities,
         relationships |-> relationships,
         metadata |-> [session_id |-> session_id,
                       entity_count |-> Len(entities),
                       relationship_count |-> Len(relationships)]]

\* lines 246-294, from the two fetches' outcomes
build_graph_response(nodes_fetch, edges_fetch, session_id) ==
    LET nodes == fetched_or_empty(nodes_fetch)
        edges == fetched_or_empty(edges_fetch)
        degrees == degree_map(edges)
        entities == [i \in DOMAIN nodes |-> GraphEntity(nodes[i], degrees)]
        relationships == [i \in DOMAIN edges |-> GraphRelationship(edges[i])]
    IN  [entities |-> entities,
         relationships |-> relationships,
         metadata |-> [session_id |-> session_id,
                       entity_count |-> Len(entities),
                       relationship_count |-> Len(relationships)]]

\* lines 234 and 243: the warnings the call logs, in order; a warning is
\* about the session whose fetch raised, and the code logs no other
build_graph_warnings(nodes_fetch, edges_fetch, session_id) ==
    (IF nodes_fetch.raised
     THEN <<[message |-> "Failed to get nodes", about |-> <<session_id, 0>>]>> ELSE <<>>)
    \o (IF edges_fetch.raised
        THEN <<[message |-> "Failed to get edges", about |-> <<session_id, 0>>]>> ELSE <<>>)

(***************************************************************************)
(* State.                                                                  *)
(***************************************************************************)
VARIABLES
    EMBEDDER_API_KEY,   \* line 28: the server-side fallback key, "" when unset
    driver,             \* line 30: the global store handle, "None" until created
    indices_built,      \* line 158
    lifespan_pc,        \* where the lifespan context manager stands
    graphs,             \* the store: one graph per database name
    req,                \* the bag of requests in flight
    accepted,           \* requests accepted so far
    build_stats,        \* history: build_indices_and_constraints invocations
    sent,               \* the response the last step sent, if it sent one
    rt_args, rt_env, rt_result,   \* one call of make_graphiti on its own
    mat_pc, mat_in, mat_out,      \* one call of build_graph_response on its own
    mat_log,                      \* what that call wrote to the log
    call_pc, call_in, call_out    \* one request body, and what the handler made of it

sys_vars == <<EMBEDDER_API_KEY, driver, indices_built, lifespan_pc,
              graphs, req, accepted, build_stats, sent>>
rt_vars == <<rt_args, rt_env, rt_result>>
mat_vars == <<mat_pc, mat_in, mat_out, mat_log>>
call_vars == <<call_pc, call_in, call_out>>
vars == <<sys_vars, rt_vars, mat_vars, call_vars>>

\* no request body is being looked at
CallIdle ==
    /\ call_pc = "idle"
    /\ call_in = <<>>
    /\ call_out = <<>>

(***************************************************************************)
(* make_graphiti on its own: every combination of its arguments and of     *)
(* what it reads from the process.                                         *)
(***************************************************************************)
NotCalled == RouteFailure("not called", "", <<>>, "None")

RtArgs == [llm_provider : Providers, llm_api_key : LlmKeys, embedder_key : EmbedderHints]
RtEnvs ==
    [EMBEDDER_API_KEY : ServerKeys, anthropic_ok : BOOLEAN,
     driver : {"None", "FalkorDriver"}, ctor_ok : BOOLEAN]

RtIdle ==
    /\ rt_args = [llm_provider |-> "openai", llm_api_key |-> "", embedder_key |-> ""]
    /\ rt_env = [EMBEDDER_API_KEY |-> "", anthropic_ok |-> FALSE,
                 driver |-> "None", ctor_ok |-> FALSE]
    /\ rt_result = NotCalled

\* a caller is about to call make_graphiti
RtChoose ==
    /\ rt_result.outcome # "not called"
    /\ rt_args' \in RtArgs
    /\ \E ok \in BOOLEAN : rt_env' = [rt_env EXCEPT !.driver = rt_result.driver, !.ctor_ok = ok]
    /\ rt_result' = NotCalled
    /\ UNCHANGED <<sys_vars, mat_vars, call_vars>>

\* the call
RtCall ==
    /\ rt_result.outcome = "not called"
    /\ rt_result' = make_graphiti(rt_args.llm_provider, rt_args.llm_api_key,
                                  rt_args.embedder_key, rt_env)
    /\ UNCHANGED <<rt_args, rt_env, sys_vars, mat_vars, call_vars>>

(***************************************************************************)
(* build_graph_response on its own: every small node list and edge list,   *)
(* and every outcome of the two fetches.                                   *)
(***************************************************************************)
LabelEntity == <<"E","n","t","i","t","y">>
LabelPerson == <<"P","e","r","s","o","n">>
LabelNODE == <<"N","O","D","E">>
LabelEntityNode == <<"E","n","t","i","t","y","N","o","d","e">>
LabelPET == <<"P","E","T">>

Uuid(session, n) == <<session, n>>

NodeMenu ==
    { [uuid |-> Uuid("A", 1), group_id |-> "A", name |-> "Ada",
       summary |-> Some("a person"), labels |-> Some(<<LabelEntity, LabelPerson>>),
       created_at |-> [some |-> TRUE, val |-> 1]],
      [uuid |-> Uuid("A", 2), group_id |-> "A", name |-> "Engine",
       summary |-> None, labels |-> Some(<<LabelEntity>>),
       created_at |-> NoneTime],
      [uuid |-> Uuid("A", 3), group_id |-> "A", name |-> "Notes",
       summary |-> Some(""), labels |-> NoneLabels,
       created_at |-> [some |-> TRUE, val |-> 2]],
      [uuid |-> Uuid("A", 4), group_id |-> "A", name |-> "Dot",
       summary |-> None,
       labels |-> Some(<<LabelNODE, LabelEntityNode, LabelPET, LabelPerson>>),
       created_at |-> NoneTime],
      [uuid |-> Uuid("A", 5), group_id |-> "A", name |-> "Pond",
       summary |-> None, labels |-> Some(<<>>),
       created_at |-> NoneTime] }

Edge(n, src, tgt, fact, name, valid, invalid) ==
    [uuid |-> Uuid("A", n), group_id |-> "A",
     source_node_uuid |-> src, target_node_uuid |-> tgt,
     fact |-> fact, name |-> name, valid_at |-> valid, invalid_at |-> invalid]

\* node 9 is in no node list: an edge that names it dangles
EdgeMenu ==
    { Edge(11, Uuid("A", 1), Uuid("A", 2), Some("Ada built the engine"), Some("BUILT"),
           [some |-> TRUE, val |-> 1], NoneTime),
      Edge(12, Uuid("A", 2), Uuid("A", 1), None, None, NoneTime, NoneTime),
      Edge(13, Uuid("A", 1), Uuid("A", 1), Some(""), Some(""),
           [some |-> TRUE, val |-> 1], [some |-> TRUE, val |-> 2]),
      Edge(14, Uuid("A", 1), Uuid("A", 9), Some("Ada knows"), Some("KNOWS"),
           NoneTime, NoneTime),
      Edge(15, Uuid("A", 9), Uuid("A", 2), Some("uses"), None, NoneTime, NoneTime) }

\* the lists of at most n records of S, no record twice
RECURSIVE ListsUpTo(_, _)
ListsUpTo(S, n) ==
    IF n = 0 THEN { <<>> }
    ELSE LET shorter == ListsUpTo(S, n - 1)
         IN  shorter \cup { Append(l, x) : l \in shorter, x \in S }

Distinct(l) == \A i, j \in DOMAIN l : i # j => l[i] # l[j]

NodeLists == { l \in ListsUpTo(NodeMenu, MaxNodes) : Distinct(l) }
EdgeLists == { l \in ListsUpTo(EdgeMenu, MaxEdges) : Distinct(l) }

Fetches(lists) == [raised : BOOLEAN, val : lists]

NoResponse == build_graph_response([raised |-> TRUE, val |-> <<>>], [raised |-> TRUE, val |-> <<>>], "")

MatIdle ==
    /\ mat_pc = "idle"
    /\ mat_in = [nodes_fetch |-> [raised |-> TRUE, val |-> <<>>],
                 edges_fetch |-> [raised |-> TRUE, val |-> <<>>], session_id |-> ""]
    /\ mat_out = NoResponse
    /\ mat_log = <<>>

\* the store's content, and whether each fetch raises, before a call
MatChoose ==
    /\ mat_pc = "idle"
    /\ \E nf \in Fetches(NodeLists), ef \in Fetches(EdgeLists) :
          mat_in' = [nodes_fetch |-> nf, edges_fetch |-> ef, session_id |-> "A"]
    /\ mat_pc' = "chosen"
    /\ mat_out' = NoResponse
    /\ mat_log' = <<>>
    /\ UNCHANGED <<sys_vars, rt_vars, call_vars>>

\* the call
MatCall ==
    /\ mat_pc = "chosen"
    /\ mat_out' = build_graph_response(mat_in.nodes_fetch, mat_in.edges_fetch, mat_in.session_id)
    /\ mat_log' = build_graph_warnings(mat_in.nodes_fetch, mat_in.edges_fetch, mat_in.session_id)
    /\ mat_pc' = "returned"
    /\ UNCHANGED <<mat_in, sys_vars, rt_vars, call_vars>>

\* the caller is done with the response
MatForget ==
    /\ mat_pc = "returned"
    /\ mat_pc' = "idle"
    /\ mat_in' = [nodes_fetch |-> [raised |-> TRUE, val |-> <<>>],
                  edges_fetch |-> [raised |-> TRUE, val |-> <<>>], session_id |-> ""]
    /\ mat_out' = NoResponse
    /\ mat_log' = <<>>
    /\ UNCHANGED <<sys_vars, rt_vars, call_vars>>

(***************************************************************************)
(* The process: lifespan, the index lifecycle, and the three handlers,     *)
(* interleaved at their awaits.                                            *)
(***************************************************************************)
Whitespace == {" ", "\t", "\n"}

RECURSIVE lstrip(_)
lstrip(s) == IF s # <<>> /\ Head(s) \in Whitespace THEN lstrip(Tail(s)) ELSE s

RECURSIVE rstrip(_)
rstrip(s) ==
    IF s # <<>> /\ s[Len(s)] \in Whitespace THEN rstrip(SubSeq(s, 1, Len(s) - 1)) ELSE s

\* str.strip()
strip(s) == rstrip(lstrip(s))

\* request texts and queries, as character sequences
Texts == { <<>>, <<" ">>, <<"\t", " ">>, <<"h", "i">>, <<" ", "h", "i", "\n">> }

EmptyFetch == [raised |-> FALSE, val |-> <<>>]

NoBody == [entities_added |-> 0, relationships_added |-> 0,
           graph |-> NoResponse, results |-> <<>>]

\* a request that has just been accepted
NewReq ==
    [kind |-> "none", session_id |-> "", pc |-> "idle", build |-> "none",
     nodes_fetch |-> EmptyFetch, entities_added |-> 0, relationships_added |-> 0]

NothingSent ==
    [kind |-> "none", session_id |-> "", status |-> 0, detail |-> "",
     build |-> "none", body |-> NoBody]

\* the handler of request r returned or raised: its response
Response(r, status, detail, body) ==
    [kind |-> r.kind, session_id |-> r.session_id, status |-> status,
     detail |-> detail, build |-> r.build, body |-> body]

\* the last response has gone out to its client
Delivered == sent = NothingSent

\* the server takes one more request
Accept ==
    /\ lifespan_pc = "ready"
    /\ BagCardinality(req) < MaxInFlight
    /\ accepted < MaxRequests
    /\ accepted' = accepted + 1

\* the session of a new request; the sessions are interchangeable, so the
\* first request of a run is taken to be for the first of them
RequestSessions == IF accepted = 0 THEN {SessionOrder[1]} ELSE Sessions

\* what make_graphiti reads from the process; whether the import of line 63
\* succeeds and whether FalkorDriver(...) returns are left open at every call
Env(anthropic_ok, ctor_ok) ==
    [EMBEDDER_API_KEY |-> EMBEDDER_API_KEY, anthropic_ok |-> anthropic_ok,
     driver |-> driver, ctor_ok |-> ctor_ok]

\* build invocations that have not returned yet
PendingBuilds ==
    BagCardinality([r \in { q \in BagToSet(req) : q.pc = "build" } |-> req[r]])
    + (IF lifespan_pc = "build" THEN 1 ELSE 0)

\* as ensure_indices_skips, without the check of line 164
ensure_indices_never_skips(flag) == FALSE

\* line 164: ensure_indices returns at once when the flag is set
ensure_indices_skips(flag) == flag

\* as ensure_indices_result, without the assignment of line 168
ensure_indices_result_forgets(flag, build_ok) ==
    [indices_built |-> flag, raised |-> FALSE]

\* as ensure_indices_result, with the flag cleared when the build raises
ensure_indices_result_resets(flag, build_ok) ==
    [indices_built |-> build_ok, raised |-> FALSE]

\* as ensure_indices_result, with the exception let out of ensure_indices
ensure_indices_result_raises(flag, build_ok) ==
    [indices_built |-> IF build_ok THEN TRUE ELSE flag, raised |-> ~build_ok]

\* as ensure_indices_result, with the assignment of line 168 moved out of the try
ensure_indices_result_sets_anyway(flag, build_ok) ==
    [indices_built |-> TRUE, raised |-> FALSE]

\* lines 166-171: the flag after the awaited build returned (build_ok) or raised,
\* and whether ensure_indices lets the exception out
ensure_indices_result(flag, build_ok) ==
    [indices_built |-> IF build_ok THEN TRUE ELSE flag, raised |-> FALSE]

BuildStarted ==
    build_stats' = [build_stats EXCEPT !.started = @ + 1,
                                       !.solo = IF PendingBuilds = 0 THEN @ + 1 ELSE @]

BuildReturned(build_ok) ==
    build_stats' = [build_stats EXCEPT !.succeeded = IF build_ok THEN @ + 1 ELSE @,
                                       !.failed = IF build_ok THEN @ ELSE @ + 1]

\* as LifespanStartup, without the test of line 177
LifespanStartup_without_key_test ==
    /\ Delivered
    /\ lifespan_pc = "startup"
    /\ \E clients_ok \in BOOLEAN, ctor_ok \in BOOLEAN :
          LET got == get_driver(driver, ctor_ok)
          IN  IF clients_ok /\ ~got.raised
              THEN /\ driver' = got.driver
                   /\ lifespan_pc' = "build"
                   /\ sent' = NothingSent
                   /\ BuildStarted
              ELSE /\ lifespan_pc' = "ready"
                   /\ sent' = NothingSent
                   /\ UNCHANGED <<driver, build_stats>>
    /\ UNCHANGED <<EMBEDDER_API_KEY, indices_built, graphs, req,
                   accepted, rt_vars, mat_vars, call_vars>>

\* lines 176-203, up to the await of line 167 or to the yield
LifespanStartup ==
    /\ Delivered
    /\ lifespan_pc = "startup"
    /\ \E clients_ok \in BOOLEAN, ctor_ok \in BOOLEAN :
          LET got == get_driver(driver, ctor_ok)
          IN  IF EMBEDDER_API_KEY # "" /\ clients_ok /\ ~got.raised
              THEN /\ driver' = got.driver
                   /\ IF ensure_indices_skips(indices_built)
                      THEN /\ lifespan_pc' = "ready"
                           /\ sent' = NothingSent
                           /\ UNCHANGED build_stats
                      ELSE /\ lifespan_pc' = "build"
                           /\ sent' = NothingSent
                           /\ BuildStarted
              ELSE /\ lifespan_pc' = "ready"
                   /\ sent' = NothingSent
                   /\ UNCHANGED <<driver, build_stats>>
    /\ UNCHANGED <<EMBEDDER_API_KEY, indices_built, graphs, req,
                   accepted, rt_vars, mat_vars, call_vars>>

\* lines 167-171 and 196-203: the startup build returned or raised
LifespanBuildDone ==
    /\ Delivered
    /\ lifespan_pc = "build"
    /\ \E build_ok \in BOOLEAN :
          /\ indices_built' = ensure_indices_result(indices_built, build_ok).indices_built
          /\ BuildReturned(build_ok)
          /\ sent' = NothingSent
    /\ lifespan_pc' = "ready"
    /\ UNCHANGED <<EMBEDDER_API_KEY, driver, graphs, req,
                   accepted, rt_vars, mat_vars, call_vars>>

\* lines 205-207: no request is in flight when the server shuts down
LifespanShutdown ==
    /\ Delivered
    /\ lifespan_pc = "ready"
    /\ req = EmptyBag
    /\ driver' = "None"
    /\ lifespan_pc' = "stopped"
    /\ sent' = NothingSent
    /\ UNCHANGED <<EMBEDDER_API_KEY, indices_built, graphs, req,
                   accepted, build_stats, rt_vars, mat_vars, call_vars>>

(***************************************************************************)
(* The store and the engine, as the handlers use them.                     *)
(***************************************************************************)
\* as session_scope, with the first session's graph read whatever the session
session_scope_default(session_id) ==
    [database |-> SessionOrder[1], group_ids |-> {SessionOrder[1]}]

\* lines 226-241: the database the session driver is cloned for, and the
\* group ids both fetches filter by
session_scope(session_id) == [database |-> session_id, group_ids |-> {session_id}]

\* line 340: the partition an episode is written under
episode_group_id(session_id) == session_id

\* line 386: the groups a search is restricted to
search_group_ids(session_id) == {session_id}

\* line 387
num_results == 20

\* get_by_group_ids: the records of one database that carry one of the group ids
RECURSIVE InGroups(_, _)
InGroups(records, group_ids) ==
    IF records = <<>> THEN <<>>
    ELSE (IF Head(records).group_id \in group_ids THEN <<Head(records)>> ELSE <<>>)
         \o InGroups(Tail(records), group_ids)

\* what the engine extracts from one episode: nothing, or a node and its edge
Extractions == {"nothing", "node_and_edge"}

NewNode(g, group_id) ==
    [uuid |-> Uuid(group_id, Len(g.nodes) + 1), group_id |-> group_id, name |-> "Ada",
     summary |-> Some("a person"), labels |-> Some(<<LabelEntity, LabelPerson>>),
     created_at |-> [some |-> TRUE, val |-> 1]]

\* the new node's edge to the session's first node (to itself when it is the first)
NewEdge(g, group_id) ==
    [uuid |-> Uuid(group_id, 100 + Len(g.edges) + 1), group_id |-> group_id,
     source_node_uuid |-> Uuid(group_id, Len(g.nodes) + 1),
     target_node_uuid |-> Uuid(group_id, 1),
     fact |-> Some("Ada built the engine"), name |-> Some("BUILT"),
     valid_at |-> [some |-> TRUE, val |-> 1], invalid_at |-> NoneTime]

\* add_episode(group_id = ...): the engine writes into the group's own graph
AddEpisode(store, group_id, extraction) ==
    LET g == store[group_id]
    IN  [store EXCEPT ![group_id] =
            [nodes |-> IF extraction = "nothing" THEN g.nodes
                       ELSE Append(g.nodes, NewNode(g, group_id)),
             edges |-> IF extraction = "node_and_edge"
                       THEN Append(g.edges, NewEdge(g, group_id)) ELSE g.edges]]

\* as AddedNodes, for a handler that never reads the result's node list
AddedNodes_unread(extraction) == 0

\* lines 343-344: the counts read from the engine's result
AddedNodes(extraction) == IF extraction = "nothing" THEN 0 ELSE 1
AddedEdges(extraction) == IF extraction = "node_and_edge" THEN 1 ELSE 0

\* the engine's answer to a search: n edges of the groups asked for
RECURSIVE EdgesOfGroups(_, _, _)
EdgesOfGroups(store, group_ids, i) ==
    IF i > Len(SessionOrder) THEN <<>>
    ELSE (IF SessionOrder[i] \in group_ids
          THEN InGroups(store[SessionOrder[i]].edges, group_ids) ELSE <<>>)
         \o EdgesOfGroups(store, group_ids, i + 1)

EngineSearch(store, group_ids, n) ==
    LET found == EdgesOfGroups(store, group_ids, 1)
    IN  IF found = <<>> THEN <<>>
        ELSE [i \in 1 .. n |-> found[((i - 1) % Len(found)) + 1]]

\* the lengths of the engine's answer that the model tries
EngineLens == {0, 1, num_results, MaxEngineLen}

\* lines 390-396
SearchResult(edge) ==
    [fact |-> IF edge.fact.some /\ edge.fact.val # "" THEN edge.fact.val ELSE "",
     source |-> edge.source_node_uuid,
     target |-> edge.target_node_uuid]

(***************************************************************************)
(* POST /api/ingest                                                        *)
(***************************************************************************)
\* a request is answered before its first await
Reject(response) ==
    /\ req' = req
    /\ sent' = response

\* a request reaches its first await as r
Admit(r) ==
    /\ req' = req (+) SetToBag({r})
    /\ sent' = NothingSent

\* the handler of request q is over and the response goes out
Return(q, response) ==
    /\ req' = req (-) SetToBag({q})
    /\ sent' = response

\* request q goes on to its next await as r
Goto(q, r) ==
    /\ req' = (req (-) SetToBag({q})) (+) SetToBag({r})
    /\ sent' = NothingSent

\* as entry_check, with the text compared to the empty string without strip()
entry_check_no_strip(text, empty_detail, llm_provider, llm_api_key, openai_api_key, env) ==
    LET g == make_graphiti(llm_provider, llm_api_key, openai_api_key, env)
    IN  IF text = <<>>
        THEN [status |-> 400, detail |-> empty_detail, driver |-> env.driver]
        ELSE IF llm_api_key = ""
        THEN [status |-> 400, detail |-> "LLM API key required", driver |-> env.driver]
        ELSE IF g.outcome = "ValueError"
        THEN [status |-> 400, detail |-> g.detail, driver |-> env.driver]
        ELSE IF g.outcome # "ok"
        THEN [status |-> 500, detail |-> "Internal Server Error", driver |-> env.driver]
        ELSE [status |-> 0, detail |-> "", driver |-> g.driver]

\* lines 314-322 and 373-381: validation and routing, the same in both handlers
\* but for the name of the text; status 0 says the handler goes on
entry_check(text, empty_detail, llm_provider, llm_api_key, openai_api_key, env) ==
    LET g == make_graphiti(llm_provider, llm_api_key, openai_api_key, env)
    IN  IF strip(text) = <<>>
        THEN [status |-> 400, detail |-> empty_detail, driver |-> env.driver]
        ELSE IF llm_api_key = ""
        THEN [status |-> 400, detail |-> "LLM API key required", driver |-> env.driver]
        ELSE IF g.outcome = "ValueError"
        THEN [status |-> 400, detail |-> g.detail, driver |-> env.driver]
        ELSE IF g.outcome # "ok"
        THEN [status |-> 500, detail |-> "Internal Server Error", driver |-> env.driver]
        ELSE [status |-> 0, detail |-> "", driver |-> g.driver]

\* the outcomes of validation and routing over every request body, for each
\* server key and each state of the global driver
EntryTable ==
    [server_key \in ServerKeys, drv \in {"None", "FalkorDriver"}, empty_detail \in {"Empty text", "Empty query"} |->
        { entry_check(text, empty_detail, p, k, h,
                      [EMBEDDER_API_KEY |-> server_key, anthropic_ok |-> anthropic_ok,
                       driver |-> drv, ctor_ok |-> ctor_ok]) :
            text \in Texts, p \in Providers, k \in LlmKeys, h \in EmbedderHints,
            anthropic_ok \in BOOLEAN, ctor_ok \in BOOLEAN }]

EntryOutcomes(empty_detail) == EntryTable[EMBEDDER_API_KEY, driver, empty_detail]

\* lines 314-324 for one outcome of validation and routing
IngestEntry(sid, entry) ==
    LET r == [NewReq EXCEPT !.kind = "ingest", !.session_id = sid]
    IN  IF entry.status # 0
        THEN /\ Reject(Response(r, entry.status, entry.detail, NoBody))
             /\ UNCHANGED <<driver, build_stats>>
        ELSE /\ driver' = entry.driver
             /\ IF ensure_indices_skips(indices_built)
                THEN /\ Admit([r EXCEPT !.pc = "add_episode", !.build = "skipped"])
                     /\ UNCHANGED build_stats
                ELSE /\ Admit([r EXCEPT !.pc = "build"])
                     /\ BuildStarted

\* lines 314-324, up to the first await: validation, routing, ensure_indices
IngestStart ==
    /\ Delivered
    /\ Accept
    /\ \E sid \in RequestSessions, entry \in EntryOutcomes("Empty text") :
          IngestEntry(sid, entry)
    /\ UNCHANGED <<EMBEDDER_API_KEY, indices_built, lifespan_pc, graphs,
                   rt_vars, mat_vars, call_vars>>

\* lines 167-171 and 324: the awaited build returned or raised
IngestBuildDone(q) ==
    /\ Delivered
    /\ q.pc = "build"
    /\ \E build_ok \in BOOLEAN :
          LET e == ensure_indices_result(indices_built, build_ok)
              r == [q EXCEPT !.build = IF build_ok THEN "built"
                                       ELSE IF indices_built THEN "failed_late"
                                       ELSE "failed"]
          IN  /\ indices_built' = e.indices_built
              /\ BuildReturned(build_ok)
              /\ IF e.raised
                 THEN Return(q, Response(r, 500, "Internal Server Error", NoBody))
                 ELSE Goto(q, [r EXCEPT !.pc = "add_episode"])
    /\ UNCHANGED <<EMBEDDER_API_KEY, driver, lifespan_pc, graphs,
                   accepted, rt_vars, mat_vars, call_vars>>

\* lines 326-347: add_episode returned or raised; then the counts, get_driver
\* and the clone, up to the await of the node fetch
IngestAddEpisodeDone(q) ==
    /\ Delivered
    /\ q.pc = "add_episode"
    /\ \E raised \in BOOLEAN, extraction \in Extractions, ctor_ok \in BOOLEAN :
          LET r == q
              group_id == episode_group_id(r.session_id)
              got == get_driver(driver, ctor_ok)
          IN  IF raised
                 THEN /\ Return(q, Response(r, 500, "add_episode", NoBody))
                      /\ UNCHANGED <<graphs, driver>>
                 ELSE /\ graphs' = AddEpisode(graphs, group_id, extraction)
                      /\ driver' = got.driver
                      /\ IF got.raised
                         THEN Return(q, Response(r, 500, "FalkorDriver", NoBody))
                         ELSE Goto(q, [r EXCEPT !.pc = "fetch_nodes",
                                                !.entities_added = AddedNodes(extraction),
                                                !.relationships_added = AddedEdges(extraction)])
    /\ UNCHANGED <<EMBEDDER_API_KEY, indices_built, lifespan_pc,
                   accepted, build_stats, rt_vars, mat_vars, call_vars>>

(***************************************************************************)
(* build_graph_response inside a request: the two awaited fetches.         *)
(***************************************************************************)
\* lines 226-235: the node fetch returned or raised
FetchNodesDone(q) ==
    /\ Delivered
    /\ q.pc = "fetch_nodes"
    /\ \E raised \in BOOLEAN :
          LET scope == session_scope(q.session_id)
              val == InGroups(graphs[scope.database].nodes, scope.group_ids)
          IN  Goto(q, [q EXCEPT !.pc = "fetch_edges",
                                !.nodes_fetch = [raised |-> raised,
                                                 val |-> IF raised THEN <<>> ELSE val]])
    /\ UNCHANGED <<EMBEDDER_API_KEY, driver, indices_built, lifespan_pc,
                   graphs, accepted, build_stats, rt_vars, mat_vars, call_vars>>

\* lines 237-294, and lines 349-353 or 365: the edge fetch returned or raised,
\* the response is assembled and the handler returns
FetchEdgesDone(q) ==
    /\ Delivered
    /\ q.pc = "fetch_edges"
    /\ \E raised \in BOOLEAN :
          LET r == q
              scope == session_scope(r.session_id)
              val == InGroups(graphs[scope.database].edges, scope.group_ids)
              graph == build_graph_response(r.nodes_fetch,
                           [raised |-> raised, val |-> IF raised THEN <<>> ELSE val],
                           r.session_id)
          IN  Return(q, Response(r, 200, "",
                            [NoBody EXCEPT !.entities_added = r.entities_added,
                                           !.relationships_added = r.relationships_added,
                                           !.graph = graph]))
    /\ UNCHANGED <<EMBEDDER_API_KEY, driver, indices_built, lifespan_pc,
                   graphs, accepted, build_stats, rt_vars, mat_vars, call_vars>>

(***************************************************************************)
(* GET /api/graph                                                          *)
(***************************************************************************)
\* lines 361-364 and 226: get_driver and the clone, up to the node fetch
GetGraphStart ==
    /\ Delivered
    /\ Accept
    /\ \E sid \in RequestSessions, ctor_ok \in BOOLEAN :
          LET r == [NewReq EXCEPT !.kind = "get_graph", !.session_id = sid]
              got == get_driver(driver, ctor_ok)
          IN  /\ driver' = got.driver
              /\ IF got.raised
                 THEN Reject(Response(r, 500, "FalkorDriver", NoBody))
                 ELSE Admit([r EXCEPT !.pc = "fetch_nodes"])
    /\ UNCHANGED <<EMBEDDER_API_KEY, indices_built, lifespan_pc, graphs,
                   build_stats, rt_vars, mat_vars, call_vars>>

(***************************************************************************)
(* POST /api/search                                                        *)
(***************************************************************************)
\* lines 373-384 for one outcome of validation and routing
SearchEntry(sid, entry) ==
    LET r == [NewReq EXCEPT !.kind = "search", !.session_id = sid]
    IN  IF entry.status # 0
        THEN /\ Reject(Response(r, entry.status, entry.detail, NoBody))
             /\ UNCHANGED driver
        ELSE /\ driver' = entry.driver
             /\ Admit([r EXCEPT !.pc = "search"])

\* lines 373-384, up to the await of the engine's search
SearchStart ==
    /\ Delivered
    /\ Accept
    /\ \E sid \in RequestSessions, entry \in EntryOutcomes("Empty query") :
          SearchEntry(sid, entry)
    /\ UNCHANGED <<EMBEDDER_API_KEY, indices_built, lifespan_pc, graphs,
                   build_stats, rt_vars, mat_vars, call_vars>>

\* as SearchDone, with the results gathered so far returned when the search
\* or the projection raises
SearchDone_partial(q) ==
    /\ Delivered
    /\ q.pc = "search"
    /\ \E raised \in BOOLEAN, n \in EngineLens :
          LET r == q
              group_ids == search_group_ids(r.session_id)
              edges == EngineSearch(graphs, group_ids, n)
              results == [j \in DOMAIN edges |-> SearchResult(edges[j])]
          IN  IF raised
                 THEN Return(q, Response(r, 200, "",
                          [NoBody EXCEPT !.results = SubSeq(results, 1, Len(results) - 1)]))
                 ELSE Return(q, Response(r, 200, "", [NoBody EXCEPT !.results = results]))
    /\ UNCHANGED <<EMBEDDER_API_KEY, driver, indices_built, lifespan_pc,
                   graphs, accepted, build_stats, rt_vars, mat_vars, call_vars>>

\* lines 384-402: the engine's search returned or raised
SearchDone(q) ==
    /\ Delivered
    /\ q.pc = "search"
    /\ \E raised \in BOOLEAN, n \in EngineLens :
          LET r == q
              group_ids == search_group_ids(r.session_id)
              edges == EngineSearch(graphs, group_ids, n)
              results == [j \in DOMAIN edges |-> SearchResult(edges[j])]
          IN  IF raised
                 THEN Return(q, Response(r, 500, "search", NoBody))
                 ELSE Return(q, Response(r, 200, "", [NoBody EXCEPT !.results = results]))
    /\ UNCHANGED <<EMBEDDER_API_KEY, driver, indices_built, lifespan_pc,
                   graphs, accepted, build_stats, rt_vars, mat_vars, call_vars>>

\* the response goes out to the client; no handler runs in between
Deliver ==
    /\ ~Delivered
    /\ sent' = NothingSent
    /\ UNCHANGED <<EMBEDDER_API_KEY, driver, indices_built, lifespan_pc,
                   graphs, req, accepted, build_stats, rt_vars, mat_vars, call_vars>>

(***************************************************************************)
(* The start of ingest and of search for one request body at a time, in a  *)
(* process that is ready.                                                  *)
(***************************************************************************)
\* the body of a request, and what the process finds at the call
Bodies ==
    [kind : {"ingest", "search"}, session_id : {SessionOrder[1]}, text : Texts,
     llm_provider : Providers, llm_api_key : LlmKeys, openai_api_key : EmbedderHints,
     anthropic_ok : BOOLEAN, ctor_ok : BOOLEAN]

\* lines 314-322 or 373-381 for the body b
body_entry(b) ==
    entry_check(b.text, IF b.kind = "ingest" THEN "Empty text" ELSE "Empty query",
                b.llm_provider, b.llm_api_key, b.openai_api_key,
                Env(b.anthropic_ok, b.ctor_ok))

\* POST /api/ingest with the body call_in, up to the first await
CallIngest ==
    /\ call_pc = "chosen"
    /\ call_in.kind = "ingest"
    /\ Delivered
    /\ Accept
    /\ IngestEntry(call_in.session_id, body_entry(call_in))
    /\ call_pc' = "entered"
    /\ call_out' = body_entry(call_in)
    /\ UNCHANGED <<EMBEDDER_API_KEY, indices_built, lifespan_pc, graphs,
                   rt_vars, mat_vars, call_in>>

\* POST /api/search with the body call_in, up to the first await
CallSearch ==
    /\ call_pc = "chosen"
    /\ call_in.kind = "search"
    /\ Delivered
    /\ Accept
    /\ SearchEntry(call_in.session_id, body_entry(call_in))
    /\ call_pc' = "entered"
    /\ call_out' = body_entry(call_in)
    /\ UNCHANGED <<EMBEDDER_API_KEY, indices_built, lifespan_pc, graphs,
                   build_stats, rt_vars, mat_vars, call_in>>

(***************************************************************************)
(* The reference time of an episode (lines 326-341), for one ingest body   *)
(* at a time.  A timestamp is a sequence of characters, so that replace()  *)
(* and fromisoformat() are conversions.                                    *)
(***************************************************************************)
NoneStr == [some |-> FALSE, val |-> <<>>]

Digits == {"0", "1", "2", "3", "4", "5", "6", "7", "8", "9"}

DigitValue(c) ==
    CASE c = "0" -> 0 [] c = "1" -> 1 [] c = "2" -> 2 [] c = "3" -> 3 [] c = "4" -> 4
      [] c = "5" -> 5 [] c = "6" -> 6 [] c = "7" -> 7 [] c = "8" -> 8 [] c = "9" -> 9
      [] OTHER -> 0

\* the number written by the two characters of s at i and i + 1
TwoDigits(s, i) == 10 * DigitValue(s[i]) + DigitValue(s[i + 1])

\* str.replace("Z", "+00:00"): every Z of s, wherever it stands
RECURSIVE replace_Z(_)
replace_Z(s) ==
    IF s = <<>> THEN <<>>
    ELSE (IF Head(s) = "Z" THEN <<"+","0","0",":","0","0">> ELSE <<Head(s)>>)
         \o replace_Z(Tail(s))

\* s is YYYY-MM-DDTHH:MM:SS with every field in its range
IsDateTime(s) ==
    /\ Len(s) = 19
    /\ \A i \in {1, 2, 3, 4, 6, 7, 9, 10, 12, 13, 15, 16, 18, 19} : s[i] \in Digits
    /\ s[5] = "-" /\ s[8] = "-" /\ s[11] = "T" /\ s[14] = ":" /\ s[17] = ":"
    /\ TwoDigits(s, 6) \in 1 .. 12
    /\ TwoDigits(s, 9) \in 1 .. 31
    /\ TwoDigits(s, 12) \in 0 .. 23
    /\ TwoDigits(s, 15) \in 0 .. 59
    /\ TwoDigits(s, 18) \in 0 .. 59

\* s is +HH:MM or -HH:MM
IsOffset(s) ==
    /\ Len(s) = 6
    /\ s[1] \in {"+", "-"}
    /\ \A i \in {2, 3, 5, 6} : s[i] \in Digits
    /\ s[4] = ":"
    /\ TwoDigits(s, 2) \in 0 .. 23
    /\ TwoDigits(s, 5) \in 0 .. 59

\* the minutes east of UTC that the offset s names
OffsetMinutes(s) ==
    (IF s[1] = "-" THEN -1 ELSE 1) * (60 * TwoDigits(s, 2) + TwoDigits(s, 5))

NoOffset == [some |-> FALSE, val |-> 0]

\* a datetime: the wall-clock fields as written, and the UTC offset if aware
DateTime(wall, tzinfo) == [wall |-> wall, tzinfo |-> tzinfo]

\* datetime.fromisoformat for the strings of the model: a date and a time,
\* with or without a UTC offset; anything else raises ValueError
fromisoformat(s) ==
    IF IsDateTime(s)
    THEN [raised |-> FALSE, val |-> DateTime(s, NoOffset)]
    ELSE IF Len(s) = 25 /\ IsDateTime(SubSeq(s, 1, 19)) /\ IsOffset(SubSeq(s, 20, 25))
    THEN [raised |-> FALSE,
          val |-> DateTime(SubSeq(s, 1, 19),
                           [some |-> TRUE, val |-> OffsetMinutes(SubSeq(s, 20, 25))])]
    ELSE [raised |-> TRUE, val |-> DateTime(<<>>, NoOffset)]

\* datetime.now(timezone.utc) at the two moments the model tries
Nows ==
    { DateTime(<<"2","0","2","5","-","0","3","-","0","4","T","0","5",":","0","6",":","0","7">>, [some |-> TRUE, val |-> 0]),
      DateTime(<<"2","0","2","6","-","1","1","-","0","2","T","1","0",":","0","0",":","0","0">>, [some |-> TRUE, val |-> 0]) }

\* as reference_time, without the except of lines 331-332
reference_time_strict(timestamp, now) ==
    IF timestamp.some /\ timestamp.val # <<>>
    THEN fromisoformat(replace_Z(timestamp.val))
    ELSE [raised |-> FALSE, val |-> now]

\* lines 327-332: the reference time, and whether an exception gets out
reference_time(timestamp, now) ==
    IF timestamp.some /\ timestamp.val # <<>>
    THEN LET parsed == fromisoformat(replace_Z(timestamp.val))
         IN  [raised |-> FALSE, val |-> IF parsed.raised THEN now ELSE parsed.val]
    ELSE [raised |-> FALSE, val |-> now]

\* lines 326-341: the episodes the handler submits for the body b at the
\* moment now, and whether the try block was left by an exception before
submitted_episodes(b, now) ==
    LET ref_time == reference_time(b.timestamp, now)
    IN  IF ref_time.raised
        THEN [raised |-> TRUE, episodes |-> <<>>]
        ELSE [raised |-> FALSE,
              episodes |-> <<[name |-> <<b.session_id, ref_time.val>>,
                              episode_body |-> b.text,
                              reference_time |-> ref_time.val,
                              group_id |-> episode_group_id(b.session_id)]>>]

\* the timestamps the model tries: absent, empty, well formed, malformed
Timestamps ==
    { NoneStr, Some(<<>>),
      Some(<<"2","0","2","4","-","0","1","-","0","1","T","0","0",":","0","0",":","0","0","Z">>),
      Some(<<"2","0","2","4","-","0","1","-","0","1","T","0","0",":","0","0",":","0","0","+","0","0",":","0","0">>),
      Some(<<"2","0","2","4","-","0","1","-","0","1","T","0","0",":","0","0",":","0","0">>),
      Some(<<"2","0","2","4","-","0","6","-","0","1","T","1","2",":","0","0",":","0","0","+","0","2",":","0","0">>),
      Some(<<"2","0","2","4","-","0","6","-","0","1","T","1","2",":","0","0",":","0","0","Z">>),
      Some(<<"2","0","2","4","-","0","6","-","0","1","T","1","2",":","0","0",":","0","0","-","0","5",":","0","0">>),
      Some(<<"2","0","2","4","-","1","3","-","0","1","T","0","0",":","0","0",":","0","0","Z">>),
      Some(<<"2","0","2","4","-","0","1","-","0","1","T","2","5",":","0","0",":","0","0","Z">>),
      Some(<<"y","e","s","t","e","r","d","a","y">>),
      Some(<<"Z">>),
      Some(<<"1","2","3","4","5">>),
      Some(<<"2","0","2","4","-","0","1","-","0","1","T","0","0",":","0","0",":","0","0","Z","Z">>),
      Some(<<"Z","2","0","2","4","-","0","1","-","0","1","T","0","0",":","0","0",":","0","0">>) }

\* ingest bodies that passed validation and routing, and the clock
TimedBodies ==
    [session_id : Sessions, text : {<<"h", "i">>}, timestamp : Timestamps, now : Nows]

\* the handler of the body call_in comes to line 334
CallAddEpisode ==
    /\ call_pc = "timed"
    /\ call_out' = submitted_episodes(call_in, call_in.now)
    /\ call_pc' = "submitted"
    /\ UNCHANGED <<call_in, sys_vars, rt_vars, mat_vars>>

(***************************************************************************)
(* Specifications.                                                         *)
(***************************************************************************)
SysIdle ==
    /\ EMBEDDER_API_KEY = ""
    /\ driver = "None"
    /\ indices_built = FALSE
    /\ lifespan_pc = "off"
    /\ graphs = [s \in Sessions |-> [nodes |-> <<>>, edges |-> <<>>]]
    /\ req = EmptyBag
    /\ accepted = 0
    /\ build_stats = [started |-> 0, solo |-> 0, succeeded |-> 0, failed |-> 0]
    /\ sent = NothingSent

\* the process after import: nothing built, nothing stored, no request yet
Init ==
    /\ EMBEDDER_API_KEY \in ServerKeys
    /\ driver = "None"
    /\ indices_built = FALSE
    /\ Delivered
    /\ lifespan_pc = "startup"
    /\ graphs = [s \in Sessions |-> [nodes |-> <<>>, edges |-> <<>>]]
    /\ req = EmptyBag
    /\ accepted = 0
    /\ build_stats = [started |-> 0, solo |-> 0, succeeded |-> 0, failed |-> 0]
    /\ sent = NothingSent
    /\ RtIdle
    /\ MatIdle
    /\ CallIdle

Next ==
    \/ LifespanStartup
    \/ LifespanBuildDone
    \/ LifespanShutdown
    \/ IngestStart
    \/ \E q \in BagToSet(req) : IngestBuildDone(q)
    \/ \E q \in BagToSet(req) : IngestAddEpisodeDone(q)
    \/ \E q \in BagToSet(req) : FetchNodesDone(q)
    \/ \E q \in BagToSet(req) : FetchEdgesDone(q)
    \/ GetGraphStart
    \/ SearchStart
    \/ \E q \in BagToSet(req) : SearchDone(q)
    \/ Deliver

Spec == Init /\ [][Next]_vars

\* the process with its scheduling: the event loop runs a coroutine that can
\* run up to its next await, and a finished response goes out.  Nothing
\* says that the engine or the store ever answers an await.
SpecLive ==
    /\ Init
    /\ [][Next]_vars
    /\ WF_vars(LifespanStartup)
    /\ WF_vars(Deliver)

\* make_graphiti on its own
InitRoute ==
    /\ SysIdle
    /\ MatIdle
    /\ CallIdle
    /\ rt_args \in RtArgs
    /\ rt_env \in RtEnvs
    /\ rt_result = NotCalled

NextRoute == RtCall \/ RtChoose

SpecRoute == InitRoute /\ [][NextRoute]_vars

\* one request body against a ready process: the flag is set or not (set by
\* one earlier build), the store handle exists or not
InitEntry ==
    /\ EMBEDDER_API_KEY \in ServerKeys
    /\ driver \in {"None", "FalkorDriver"}
    /\ indices_built \in BOOLEAN
    /\ indices_built => driver = "FalkorDriver"
    /\ lifespan_pc = "ready"
    /\ graphs = [s \in Sessions |-> [nodes |-> <<>>, edges |-> <<>>]]
    /\ req = EmptyBag
    /\ accepted = 0
    /\ build_stats = IF indices_built
                     THEN [started |-> 1, solo |-> 1, succeeded |-> 1, failed |-> 0]
                     ELSE [started |-> 0, solo |-> 0, succeeded |-> 0, failed |-> 0]
    /\ sent = NothingSent
    /\ RtIdle
    /\ MatIdle
    /\ call_pc = "chosen"
    /\ call_in \in Bodies
    /\ call_out = <<>>

NextEntry == CallIngest \/ CallSearch

SpecEntry == InitEntry /\ [][NextEntry]_vars

\* the reference time of one ingest body
InitTime ==
    /\ SysIdle
    /\ RtIdle
    /\ MatIdle
    /\ call_pc = "timed"
    /\ call_in \in TimedBodies
    /\ call_out = <<>>

NextTime == CallAddEpisode

SpecTime == InitTime /\ [][NextTime]_vars

\* build_graph_response on its own
InitMat ==
    /\ SysIdle
    /\ RtIdle
    /\ MatIdle
    /\ CallIdle

NextMat == MatChoose \/ MatCall \/ MatForget

SpecMat == InitMat /\ [][NextMat]_vars

(***************************************************************************)
(* Properties of the process.                                              *)
(***************************************************************************)
\* the session a node or an edge was written under
WrittenUnder(uuid) == uuid[1]

FailedBuilds == {"failed", "failed_late"}

\* request r is in req' once more than in req: it reached an await in this step
Copies(bag, r) == IF r \in BagToSet(bag) THEN bag[r] ELSE 0

\* C1: session isolation.  Every entity and relationship of a graph response
\* (from get_graph or from ingest), and every endpoint of a search result, was
\* written under the session of the request that the response answers; what a
\* request has fetched so far carries its own session's group id; and each
\* graph of the store holds only what was written under its own name.
C1_SessionIsolation ==
    /\ \A i \in DOMAIN sent.body.graph.entities :
          WrittenUnder(sent.body.graph.entities[i].id) = sent.session_id
    /\ \A i \in DOMAIN sent.body.graph.relationships :
          WrittenUnder(sent.body.graph.relationships[i].id) = sent.session_id
    /\ \A i \in DOMAIN sent.body.results :
          /\ WrittenUnder(sent.body.results[i].source) = sent.session_id
          /\ WrittenUnder(sent.body.results[i].target) = sent.session_id
    /\ \A q \in BagToSet(req) : \A i \in DOMAIN q.nodes_fetch.val :
          q.nodes_fetch.val[i].group_id = q.session_id
    /\ \A s \in Sessions :
          /\ \A i \in DOMAIN graphs[s].nodes :
                graphs[s].nodes[i].group_id = s /\ WrittenUnder(graphs[s].nodes[i].uuid) = s
          /\ \A i \in DOMAIN graphs[s].edges :
                graphs[s].edges[i].group_id = s /\ WrittenUnder(graphs[s].edges[i].uuid) = s

\* C1 witness: both sessions hold data, and a graph goes out for the second
\* session that shows that session's own entity
C1_Witness ==
    /\ graphs[SessionOrder[1]].nodes # <<>>
    /\ graphs[SessionOrder[2]].nodes # <<>>
    /\ sent.status = 200
    /\ sent.session_id = SessionOrder[2]
    /\ sent.body.graph.entities # <<>>

\* C2 as stated: the build invocations never number more than one plus the
\* failed ones
C2_AtMostOncePlusFailures == build_stats.started <= 1 + build_stats.failed

\* C2 amended: the build invocations that start while no other invocation is
\* pending never number more than one plus the failed ones
C2_SoloBuildsAtMostOncePlusFailures == build_stats.solo <= 1 + build_stats.failed

\* C2 witness: a build failed and a later ingest (or the first ingest after a
\* failed startup build) tried it again, alone
C2_Witness ==
    /\ build_stats.failed >= 1
    /\ build_stats.solo >= 2

\* C3: once indices_built is true it stays true, whatever step comes next
C3_FlagMonotonic == [][indices_built => indices_built']_vars

\* C3 witness: a build that was started while the flag was false has failed
\* after another build had set the flag, and the flag is still set
C3_Witness ==
    /\ indices_built
    /\ \E q \in BagToSet(req) : q.build = "failed_late"

\* an ingest request r passed validation and routing in this step
IngestAdmitted(r) ==
    /\ r.kind = "ingest"
    /\ accepted' = accepted + 1
    /\ Copies(req', r) = Copies(req, r) + 1

\* C4: no build invocation starts in a state where indices_built is true, and
\* an ingest that calls ensure_indices in such a state goes straight on to
\* add_episode, with the flag, the build history and the store as they were
C4_EnsureNoOpWhenBuilt ==
    [][indices_built =>
          /\ build_stats'.started = build_stats.started
          /\ \A r \in BagToSet(req') :
                IngestAdmitted(r) =>
                   /\ r.pc = "add_episode"
                   /\ r.build = "skipped"
                   /\ indices_built' = indices_built
                   /\ build_stats' = build_stats
                   /\ graphs' = graphs]_vars

\* C4 witness: an ingest found the flag set and skipped the build
C4_Witness ==
    /\ indices_built
    /\ \E q \in BagToSet(req) : q.build = "skipped" /\ q.pc = "add_episode"

\* an ingest's awaited build raised in this step
IngestBuildRaised ==
    /\ build_stats'.failed = build_stats.failed + 1
    /\ lifespan_pc = "ready"

\* the response answers an ingest whose build had raised
AfterFailedBuild(response) == response.kind = "ingest" /\ response.build \in FailedBuilds

\* C5 as stated: after a build raised the flag is false, and the request goes
\* on to add_episode
C5_FlagFalseAfterFailure ==
    [][IngestBuildRaised =>
          /\ ~indices_built'
          /\ sent' = NothingSent
          /\ \E r \in BagToSet(req') : r.pc = "add_episode" /\ r.build \in FailedBuilds]_vars

\* C5 amended: a build that raised leaves the flag as it was (false, unless
\* another build has set it meanwhile), sends no response, and the request goes
\* on to add_episode; a request whose build raised ends in an error only when
\* add_episode raised or the store handle could not be obtained
C5_BuildFailureNotPropagated ==
    [][/\ IngestBuildRaised =>
             /\ indices_built' = indices_built
             /\ sent' = NothingSent
             /\ \E r \in BagToSet(req') : r.pc = "add_episode" /\ r.build \in FailedBuilds
       /\ AfterFailedBuild(sent') =>
             \/ sent'.status = 200
             \/ sent'.status = 500 /\ sent'.detail \in {"add_episode", "FalkorDriver"}]_vars

\* C5 witness: an ingest whose build raised has returned success
C5_Witness ==
    /\ AfterFailedBuild(sent)
    /\ sent.status = 200
    /\ ~indices_built

(***************************************************************************)
(* Properties of make_graphiti, checked under SpecRoute.                   *)
(***************************************************************************)
RouteReturned == rt_result.outcome # "not called"

MissingKeyFailure(result) ==
    result.outcome = "ValueError" /\ result.detail = MissingKeyDetail

\* C6: the embedding credential is the LLM key when the provider is openai,
\* even if a hint is supplied; otherwise the hint if it is non-empty; otherwise
\* the server fallback if it is non-empty.  Routing fails with the
\* missing-credential error exactly when the credential so resolved is empty,
\* and on success the embedding client and the reranking client both hold
\* exactly the resolved credential.
C6_EmbedderKeyResolutionOrder ==
    RouteReturned =>
        LET resolved ==
                CASE rt_args.llm_provider = "openai" -> rt_args.llm_api_key
                  [] rt_args.llm_provider # "openai" /\ rt_args.embedder_key # ""
                        -> rt_args.embedder_key
                  [] rt_args.llm_provider # "openai" /\ rt_args.embedder_key = ""
                        -> rt_env.EMBEDDER_API_KEY
        IN  /\ (resolved = "") <=> MissingKeyFailure(rt_result)
            /\ rt_result.outcome = "ok" =>
                  /\ rt_result.embedder.kind = "OpenAIEmbedder"
                  /\ rt_result.embedder.api_key = resolved
                  /\ rt_result.cross_encoder.kind = "OpenAIRerankerClient"
                  /\ rt_result.cross_encoder.api_key = resolved

\* openai with a hint and a server key: both clients hold the LLM key
C6_Witness ==
    /\ rt_result.outcome = "ok"
    /\ rt_args.llm_provider = "openai"
    /\ rt_args.embedder_key = "sk-hint"
    /\ rt_env.EMBEDDER_API_KEY = "sk-server"
    /\ rt_result.embedder.api_key = "sk-llm"
    /\ rt_result.cross_encoder.api_key = "sk-llm"

\* C7: a provider outside {openai, anthropic} is routed as openai is: the
\* same success or failure, the same kind of LLM client and the same
\* embedding credential as the same call with provider = openai.
C7_UnrecognizedProviderAsOpenai ==
    (RouteReturned /\ rt_args.llm_provider \notin {"openai", "anthropic"}) =>
        LET as_openai == make_graphiti("openai", rt_args.llm_api_key,
                                       rt_args.embedder_key, rt_env)
        IN  /\ rt_result.outcome = as_openai.outcome
            /\ rt_result.detail = as_openai.detail
            /\ rt_result.llm_client.kind = as_openai.llm_client.kind
            /\ rt_result.embedder.api_key = as_openai.embedder.api_key

\* C8: anthropic with no hint and no server key fails with the
\* missing-credential error before any client, the store handle or the engine
\* is constructed, also when the anthropic client cannot be imported; the
\* two errors carry different messages.
C8_MissingKeyBeforeAnyClient ==
    /\ MissingKeyDetail # NotInstalledDetail
    /\ (/\ RouteReturned
        /\ rt_args.llm_provider = "anthropic"
        /\ rt_args.embedder_key = ""
        /\ rt_env.EMBEDDER_API_KEY = "")
       => /\ MissingKeyFailure(rt_result)
          /\ rt_result.constructed = <<>>
          /\ rt_result.llm_client = NoClient
          /\ rt_result.embedder = NoClient
          /\ rt_result.cross_encoder = NoClient
          /\ rt_result.driver = rt_env.driver

\* the anthropic client is not installed, no store handle exists yet, and
\* the missing credential is what the caller is told
C8_Witness ==
    /\ RouteReturned
    /\ rt_args.llm_provider = "anthropic"
    /\ rt_args.llm_api_key = "sk-llm"
    /\ rt_args.embedder_key = ""
    /\ rt_env.EMBEDDER_API_KEY = ""
    /\ ~rt_env.anthropic_ok
    /\ rt_env.driver = "None"
    /\ MissingKeyFailure(rt_result)

(***************************************************************************)
(* Properties of build_graph_response, checked under SpecMat.              *)
(***************************************************************************)
IncidentEdges(edges, uuid) ==
    { j \in DOMAIN edges :
        edges[j].source_node_uuid = uuid \/ edges[j].target_node_uuid = uuid }

\* C9: the degree of every returned entity is the number of fetched edges
\* in which the node is the source or the target, also for an edge from a
\* node to itself and for edges with an endpoint outside the node list.
C9_DegreeIsIncidentEdgeCount ==
    mat_pc = "returned" =>
        LET edges == fetched_or_empty(mat_in.edges_fetch)
        IN  \A i \in DOMAIN mat_out.entities :
                mat_out.entities[i].degree
                    = Cardinality(IncidentEdges(edges, mat_out.entities[i].id))

(***************************************************************************)
(* Properties of search, checked under Spec.                               *)
(***************************************************************************)
\* C10: a search response holds at most 20 results, whatever the length of
\* the list the engine returned.
C10_SearchAtMostCap ==
    (sent.kind = "search" /\ sent.status = 200) =>
        Len(sent.body.results) <= num_results

(***************************************************************************)
(* Properties of the start of ingest and search, checked under SpecEntry.  *)
(***************************************************************************)
\* the text or query of body b is empty or whitespace only
BlankText(b) == \A i \in DOMAIN b.text : b.text[i] \in Whitespace

\* routing fails for body b: the embedding credential cannot be resolved, or
\* the anthropic client is asked for and is not installed
RoutingFails(b) ==
    make_graphiti(b.llm_provider, b.llm_api_key, b.openai_api_key,
                  Env(b.anthropic_ok, b.ctor_ok)).outcome = "ValueError"

\* C11: an ingest or a search whose text is empty or whitespace only, whose
\* LLM key is empty, or whose routing fails is answered 400 at once: no
\* request is left in flight (so no build, no episode, no search and no
\* fetch is awaited), no build is started, and the store, the flag and the
\* store handle are as they were.
C11_ClientErrorsEarly ==
    [][(/\ call_pc = "chosen"
        /\ BlankText(call_in) \/ call_in.llm_api_key = "" \/ RoutingFails(call_in))
       => /\ sent'.status = 400
          /\ sent'.kind = call_in.kind
          /\ sent'.body = NoBody
          /\ req' = req
          /\ build_stats' = build_stats
          /\ graphs' = graphs
          /\ indices_built' = indices_built
          /\ driver' = driver]_vars

\* C11 witness: a whitespace-only ingest was turned away while the flag was
\* still false and no store handle existed
C11_Witness ==
    /\ call_pc = "entered"
    /\ call_in.kind = "ingest"
    /\ call_in.text = <<"\t", " ">>
    /\ call_in.llm_api_key # ""
    /\ sent.status = 400
    /\ sent.detail = "Empty text"
    /\ ~indices_built
    /\ driver = "None"
    /\ build_stats.started = 0

(***************************************************************************)
(* Properties of the materialization inside a request, checked under Spec. *)
(***************************************************************************)
\* request q is one of those that left req in this step
Left(q) == Copies(req', q) < Copies(req, q)

\* request r is one of those that came into req in this step
Came(r) == Copies(req', r) > Copies(req, r)

Ids(records) == [i \in DOMAIN records |-> records[i].id]
Uuids(records) == [i \in DOMAIN records |-> records[i].uuid]

\* C12: whatever the two fetches do, the materialization returns.  The node
\* fetch leaves the session's full node list, or the empty list when it
\* raised; the response that follows the edge fetch is a success whose
\* entities are exactly the nodes so fetched, whose relationships are the
\* session's full edge list or, when the edge fetch raised, the empty list,
\* and whose counts are the lengths of the two lists; a session that holds
\* nothing gives two empty lists and zero counts.
C12_MaterializationDegrades ==
    [][/\ \A r \in BagToSet(req') :
             (r.pc = "fetch_edges" /\ Came(r)) =>
                \/ r.nodes_fetch.raised /\ r.nodes_fetch.val = <<>>
                \/ ~r.nodes_fetch.raised /\ r.nodes_fetch.val = graphs[r.session_id].nodes
       /\ \A q \in BagToSet(req) :
             (q.pc = "fetch_edges" /\ Left(q)) =>
                LET stored == graphs[q.session_id]
                    graph == sent'.body.graph
                IN  /\ sent'.status = 200
                    /\ sent'.kind = q.kind
                    /\ graph.metadata.session_id = q.session_id
                    /\ Ids(graph.entities) = Uuids(q.nodes_fetch.val)
                    /\ \/ Ids(graph.relationships) = Uuids(stored.edges)
                       \/ graph.relationships = <<>>
                    /\ graph.metadata.entity_count = Len(graph.entities)
                    /\ graph.metadata.relationship_count = Len(graph.relationships)
                    /\ (stored.nodes = <<>> /\ stored.edges = <<>>) =>
                          /\ graph.entities = <<>>
                          /\ graph.relationships = <<>>
                          /\ graph.metadata.entity_count = 0
                          /\ graph.metadata.relationship_count = 0]_vars

\* C12 witness: an ingest whose extraction added a node and an edge returns
\* success although its node fetch raised: no entities, the session's edge
\* still there
C12_Witness ==
    /\ sent.kind = "ingest"
    /\ sent.status = 200
    /\ sent.body.entities_added = 1
    /\ sent.body.graph.entities = <<>>
    /\ sent.body.graph.relationships # <<>>
    /\ sent.body.graph.metadata.entity_count = 0
    /\ sent.body.graph.metadata.relationship_count = 1

(***************************************************************************)
(* Properties of startup, checked under Spec.                              *)
(***************************************************************************)
\* the lifespan has yielded and no request has come in yet
JustReady == lifespan_pc = "ready" /\ accepted = 0

\* C13 as stated: with a server key, startup has made exactly one ensure
\* call (which, the flag being false, is one build invocation) when the
\* process is ready; without one it has made none and the flag is false
C13_ExactlyOneEnsureAtStartup ==
    JustReady =>
        IF EMBEDDER_API_KEY # ""
        THEN build_stats.started = 1
        ELSE build_stats.started = 0 /\ ~indices_built

\* C13 amended: with a server key, startup makes one ensure call when the
\* temporary clients and the store handle were constructed and none when
\* their construction raised; in both cases, and whether the build then
\* returns or raises, the next step of the lifespan is the yield.  Without a
\* server key startup makes no build attempt and the flag is false at the
\* yield.
C13_StartupNeverFails ==
    [][/\ lifespan_pc = "startup" =>
             /\ lifespan_pc' \in {"build", "ready"}
             /\ lifespan_pc' = "build" <=> build_stats'.started = 1
             /\ lifespan_pc' = "ready" <=> build_stats'.started = 0
             /\ EMBEDDER_API_KEY # "" =>
                   (driver' = "FalkorDriver" <=> build_stats'.started = 1)
             /\ EMBEDDER_API_KEY = "" =>
                   /\ lifespan_pc' = "ready"
                   /\ build_stats'.started = 0
                   /\ ~indices_built'
       /\ lifespan_pc = "build" =>
             /\ lifespan_pc' = "ready"
             /\ build_stats'.started = 1
             /\ build_stats'.succeeded + build_stats'.failed = 1
             /\ indices_built' <=> build_stats'.succeeded = 1]_vars

\* C13 witness: the startup build raised and the process is ready all the
\* same, with the flag still false
C13_Witness ==
    /\ JustReady
    /\ EMBEDDER_API_KEY # ""
    /\ build_stats.started = 1
    /\ build_stats.failed = 1
    /\ ~indices_built

(***************************************************************************)
(* Readiness, checked under SpecLive.                                      *)
(***************************************************************************)
\* C14: in every execution the process eventually reaches the ready state,
\* also when the build started at startup never completes.
C14_EventuallyReady == <>(lifespan_pc = "ready")

(***************************************************************************)
(* Node types, checked under SpecMat.                                      *)
(***************************************************************************)
\* the labels of a fetched node, none when it has no label list
LabelsOf(node) == IF node.labels.some THEN node.labels.val ELSE <<>>

\* the positions of the labels that are not generic, whatever their case
SpecificAt(labels) == { j \in DOMAIN labels : Lower(labels[j]) \notin GenericLabels }

\* C15: the type of every returned entity is the lower-cased first label, in
\* list order, that is not entity, node or entitynode in any case, and
\* "topic" when the node has no label or only generic ones; {Entity, Person}
\* gives "person", {Entity} alone gives "topic".
C15_NodeTypeInference ==
    (mat_pc = "returned" /\ ~mat_in.nodes_fetch.raised) =>
        \A i \in DOMAIN mat_out.entities :
            LET labels == LabelsOf(mat_in.nodes_fetch.val[i])
                type == mat_out.entities[i].type
            IN  /\ SpecificAt(labels) = {} => type = <<"t","o","p","i","c">>
                /\ SpecificAt(labels) # {} =>
                      \E j \in SpecificAt(labels) :
                          /\ \A k \in SpecificAt(labels) : j <= k
                          /\ type = Lower(labels[j])
                /\ labels = <<LabelEntity, LabelPerson>> => type = <<"p","e","r","s","o","n">>
                /\ labels = <<LabelEntity>> => type = <<"t","o","p","i","c">>
                /\ labels = <<LabelNODE, LabelEntityNode, LabelPET, LabelPerson>>
                      => type = <<"p","e","t">>

\* C15 witness: a node labelled NODE, EntityNode, PET, Person came back as a
\* "pet", next to a node typed "topic"
C15_Witness ==
    /\ mat_pc = "returned"
    /\ \E i, j \in DOMAIN mat_out.entities :
          /\ mat_out.entities[i].type = <<"p","e","t">>
          /\ mat_out.entities[j].type = <<"t","o","p","i","c">>

(***************************************************************************)
(* Dangling relationships, checked under SpecMat.                          *)
(***************************************************************************)
\* the positions of the fetched edges with an endpoint that is no returned entity
DanglingAt(edges, entities) ==
    { j \in DOMAIN edges :
        \/ \A i \in DOMAIN entities : entities[i].id # edges[j].source_node_uuid
        \/ \A i \in DOMAIN entities : entities[i].id # edges[j].target_node_uuid }

\* C16: every fetched edge with an endpoint that is not a returned entity is
\* among the returned relationships, and a warning about it is in the log
\* (a relationship of the response has no field that could flag it).
C16_DanglingSurfacedAndFlagged ==
    mat_pc = "returned" =>
        LET edges == fetched_or_empty(mat_in.edges_fetch)
        IN  \A j \in DanglingAt(edges, mat_out.entities) :
                /\ \E k \in DOMAIN mat_out.relationships :
                      /\ mat_out.relationships[k].id = edges[j].uuid
                      /\ mat_out.relationships[k].source_id = edges[j].source_node_uuid
                      /\ mat_out.relationships[k].target_id = edges[j].target_node_uuid
                /\ \E w \in DOMAIN mat_log : mat_log[w].about = edges[j].uuid

(***************************************************************************)
(* Search, checked under Spec.                                             *)
(***************************************************************************)
\* the entry of the response for one edge of the engine's answer
EntryFor(edge) ==
    [fact |-> IF edge.fact.some THEN edge.fact.val ELSE "",
     source |-> edge.source_node_uuid,
     target |-> edge.target_node_uuid]

\* C17: a search request awaits the engine's search once: it comes to that
\* await only when it is accepted, and leaves it only with its response, no
\* request taking its place.  The response is a 500 without results when
\* the search or the projection raised, and otherwise a 200 with one entry
\* per edge of the engine's answer, in the engine's order.
C17_SearchAllOrNothing ==
    [][/\ \A r \in BagToSet(req') :
             (r.pc = "search" /\ Came(r)) => accepted' = accepted + 1
       /\ \A q \in BagToSet(req) :
             (q.pc = "search" /\ Left(q)) =>
                /\ BagCardinality(req') = BagCardinality(req) - 1
                /\ accepted' = accepted
                /\ sent'.kind = "search"
                /\ sent'.session_id = q.session_id
                /\ \/ /\ sent'.status = 500
                      /\ sent'.body = NoBody
                   \/ /\ sent'.status = 200
                      /\ \E n \in EngineLens :
                            LET edges == EngineSearch(graphs, {q.session_id}, n)
                            IN  sent'.body.results
                                   = [j \in DOMAIN edges |-> EntryFor(edges[j])]]_vars

\* C17 witness: a search came back with the one edge the engine found
C17_Witness ==
    /\ sent.kind = "search"
    /\ sent.status = 200
    /\ Len(sent.body.results) = 1
    /\ sent.body.results[1].fact = "Ada built the engine"
    /\ sent.body.results[1].source = Uuid(sent.session_id, 1)


(***************************************************************************)
(* C18: a malformed timestamp never rejects or fails an ingest.            *)
(***************************************************************************)
\* the timestamp of b is a string that the handler's parse rejects
Unparseable(b) ==
    /\ b.timestamp.some
    /\ b.timestamp.val # <<>>
    /\ fromisoformat(replace_Z(b.timestamp.val)).raised

\* the timestamp of b ends in Z
TrailingZ(b) ==
    /\ b.timestamp.some
    /\ Len(b.timestamp.val) >= 1
    /\ b.timestamp.val[Len(b.timestamp.val)] = "Z"

\* the timestamp of b with its last character replaced by +00:00
WithUtcOffset(b) ==
    Some(SubSeq(b.timestamp.val, 1, Len(b.timestamp.val) - 1) \o <<"+","0","0",":","0","0">>)

\* C18: for every ingest body that passed validation and routing, if the
\* timestamp string cannot be parsed then no exception leaves the block, exactly
\* one episode is submitted, its reference time is the current UTC time, and
\* what is submitted equals what is submitted for the same body without a
\* timestamp; a timestamp with a trailing Z gives the reference time of the same
\* string with +00:00, which for a well formed date and time is that wall
\* clock at offset zero.
C18_MalformedTimestampFallsBack ==
    call_pc = "submitted" =>
        /\ Unparseable(call_in) =>
              /\ ~call_out.raised
              /\ Len(call_out.episodes) = 1
              /\ call_out.episodes[1].reference_time = call_in.now
              /\ call_out.episodes[1].group_id = call_in.session_id
              /\ call_out = submitted_episodes([call_in EXCEPT !.timestamp = NoneStr], call_in.now)
        /\ TrailingZ(call_in) =>
              /\ call_out = submitted_episodes([call_in EXCEPT !.timestamp = WithUtcOffset(call_in)], call_in.now)
              /\ IsDateTime(SubSeq(call_in.timestamp.val, 1, Len(call_in.timestamp.val) - 1)) =>
                    /\ Len(call_out.episodes) = 1
                    /\ call_out.episodes[1].reference_time =
                          DateTime(SubSeq(call_in.timestamp.val, 1, 19), [some |-> TRUE, val |-> 0])

\* a body whose timestamp is the word yesterday was submitted at the current time
C18_Witness ==
    /\ call_pc = "submitted"
    /\ call_in.timestamp = Some(<<"y","e","s","t","e","r","d","a","y">>)
    /\ Unparseable(call_in)
    /\ Len(call_out.episodes) = 1
    /\ call_out.episodes[1].reference_time = call_in.now


(***************************************************************************)
(* C19: the order of the steps of an ingest, and its two counts.           *)
(***************************************************************************)
\* some request with the position pc and the session of r left req in this step
LeftFrom(pc, r) ==
    \E q \in BagToSet(req) : q.pc = pc /\ q.kind = r.kind /\ q.session_id = r.session_id /\ Left(q)

\* a request was admitted in this step
Admitted == accepted' = accepted + 1

BuildEnded ==
    \/ lifespan_pc = "build" /\ lifespan_pc' = "ready"
    \/ \E q \in BagToSet(req) : q.pc = "build" /\ Left(q)

\* C20: in every reachable state, if the flag is true then at least one build
\* invocation has completed successfully; and the flag turns true only in a
\* step in which a pending build ends in success, never in a step that starts
\* or skips a build or in which a build fails.
C20_FlagImpliesSuccessfulBuild ==
    /\ [](indices_built => build_stats.succeeded >= 1)
    /\ [][(~indices_built /\ indices_built') =>
             /\ BuildEnded
             /\ build_stats'.succeeded = build_stats.succeeded + 1
             /\ build_stats'.failed = build_stats.failed
             /\ build_stats'.started = build_stats.started]_vars

\* C20 witness: the flag is true after one build failed and a later one
\* succeeded, with a request admitted since that skipped the build
C20_Witness ==
    /\ indices_built
    /\ build_stats.failed >= 1
    /\ build_stats.succeeded >= 1
    /\ \E r \in BagToSet(req) : r.build = "skipped"

=============================================================================
